---- MODULE Spec2Model ----
(***************************************************************************)
(* A state-machine model of neighsnoopd's topology cache (cache.c), its    *)
(* netlink event handlers, the ring-buffer reply correlator and the        *)
(* neighbor refresh timers (neighsnoopd.c).                                *)
(*                                                                         *)
(* Heap objects are modelled as memory chunks that keep their last content *)
(* after g_free(): link_mem[i] is the struct link_cache allocated for      *)
(* ifindex i, ln[s] the struct link_network_cache in chunk s, net[id] the  *)
(* struct network_cache with that id.  The hash tables hold the keys that  *)
(* are currently inserted.  A read through a pointer to freed memory is    *)
(* undefined behaviour: the handler that performs one either kills the     *)
(* process (pc = "crashed") or goes on with the stale content of the       *)
(* chunk.  A chunk that was freed can be handed out again by g_new0().     *)
(* Freed chunks that no pointer of the program refers to any more are left *)
(* out of the state, and so is the memory of a process that has died.      *)
(*                                                                         *)
(* clock_gettime(CLOCK_REALTIME) with a valid pointer and g_new0() are     *)
(* taken to succeed (g_new0 aborts the process instead of returning NULL). *)
(***************************************************************************)
EXTENDS Integers, Sequences, FiniteSets, TLC

\* ---------------------------------------------------------------- bounds
\* cap on the static id counter of cache_add_network
MaxNet == 2
\* number of heap chunks available for struct link_network_cache
MaxLN == 2
\* cap on the length of the netlink TX queue between two flushes
MaxTx == 1

\* ------------------------------------------------------- input domains
\* env.ifidx_mon: ifindex of the monitored bridge
IfidxMon == 1
Ifindexes == {1, 2}
VlanIds == {0, 1}
\* addresses are AddrBits wide; prefix lengths count leading bits
AddrBits == 2
RECURSIVE Pow2(_)
Pow2(n) == IF n <= 0 THEN 1 ELSE 2 * Pow2(n - 1)
\* the addresses of the events: the two highest ones, which share every
\* prefix shorter than the full width
HostIp == Pow2(AddrBits) - 1
NetIp == HostIp - 1
ZeroMac == 0
FdbMacs == {1}
LnSlots == 1..MaxLN

\* the values of base_reachable_time_ms (milliseconds) and of rand() that
\* the interval computation is applied to
MaxBaseStep == 12
MaxRandStep == 8
RAND_MAX == 2147483647
BaseTimes == {0, 1, 3} \cup {2500 * k : k \in 1..MaxBaseStep}
Rands == {0, 1, 1999, 2000, 2001, RAND_MAX}
           \cup {1333 * k : k \in 1..MaxRandStep}

\* the largest N of -c N, and how far below zero env.count is followed
MaxCount == 2

NUD_REACHABLE == "REACHABLE"
NUD_STALE == "STALE"
NUD_FAILED == "FAILED"
NudStates == {NUD_REACHABLE, NUD_STALE, NUD_FAILED}

VARIABLES
    pc,                        \* "run", "stopped" (main_loop returned), "crashed"
    has_links, has_networks, has_fdb,   \* env readiness flags
    link_mem,                  \* ifindex -> struct link_cache (chunk content)
    db_link_cache,             \* keys of the link table
    ln,                        \* chunk -> struct link_network_cache
    net,                       \* id -> struct network_cache
    next_id,                   \* static __u32 id of cache_add_network
    db_network_cache,          \* keys of the network table
    db_lookup_addr,            \* network address -> network id
    db_lookup_vlan_networkid,  \* <<network_id, vlan_id>> -> chunk
    db_lookup_addr_ifindex,    \* <<network address, ifindex>> -> chunk
    db_fdb_cache,              \* <<mac, ifindex, vlan_id>> -> struct fdb_cache
    db_neigh_cache,            \* <<ifindex, ip>> -> struct neigh_cache
    target_networks,           \* eBPF map <<prefixlen, network>> -> network_id
    timers,                    \* neigh key -> number of pending timer entries
    nl_tx,                     \* netlink TX queue
    probes,                    \* probes emitted by the last handler
    last,                      \* the last event handled and its outcome
    trace,                     \* whether last records every kind of event
    assigned,                  \* history: <<ifindex, ip, prefixlen>> of the
                               \* addresses the kernel has on the SVIs
    timing,                    \* the inputs and result of one interval
                               \* computation of get_next_gratuitous_time
    loop,                      \* where main and main_loop are: env.count and
                               \* last_round under -c N, the stage of a
                               \* wake-up, the setups and cleanups that ran
    frame                      \* one call of send_neighbor_solicitation: its
                               \* neighbor, the host byte order, the buffer

vars == <<pc, has_links, has_networks, has_fdb, link_mem, db_link_cache, ln,
          net, next_id, db_network_cache, db_lookup_addr,
          db_lookup_vlan_networkid, db_lookup_addr_ifindex, db_fdb_cache,
          db_neigh_cache, target_networks, timers, nl_tx, probes, last,
          trace, assigned, timing, loop, frame>>

envVars == <<has_links, has_networks, has_fdb>>
auxVars == <<trace, assigned, timing, loop, frame>>

\* ------------------------------------------------------------- helpers
EmptyMap == [x \in {} |-> 0]
MapRemove(f, k) == [x \in DOMAIN f \ {k} |-> f[x]]
\* g_hash_table_insert: an existing key keeps its slot and gets the new value
MapInsert(f, k, v) == [x \in DOMAIN f \cup {k} |-> IF x = k THEN v ELSE f[x]]

RECURSIVE RemoveFirst(_, _)
RemoveFirst(s, x) ==
    IF s = <<>> THEN <<>>
    ELSE IF Head(s) = x THEN Tail(s)
    ELSE <<Head(s)>> \o RemoveFirst(Tail(s), x)

SeqSet(s) == {s[i] : i \in DOMAIN s}

\* zero all bits beyond prefixlen
calculate_network_using_cidr(ip, prefixlen) ==
    LET low == Pow2(AddrBits - prefixlen) IN (ip \div low) * low

compare_ipv6_addresses(a, b) == a = b

is_zero_mac(mac) == mac = ZeroMac

\* ------------------------------------------------------ the cache record
\* The handlers are sequences of updates; they are written as functions on
\* a record holding the program's memory, and the action installs the result.
\* ub: the handler read or freed memory that was already freed; ret: the
\* handler's return value; res: the path it took; probes: what it sent;
\* asked: it read base_reachable_time_ms.
Cache ==
    [lm |-> link_mem, lk |-> db_link_cache, ln |-> ln, net |-> net,
     nid |-> next_id, nets |-> db_network_cache, addr |-> db_lookup_addr,
     vnid |-> db_lookup_vlan_networkid, ifad |-> db_lookup_addr_ifindex,
     fdb |-> db_fdb_cache, tn |-> target_networks,
     neigh |-> db_neigh_cache, timers |-> timers, tx |-> nl_tx,
     probes |-> <<>>, ub |-> FALSE, ret |-> 0, res |-> "ignored",
     asked |-> FALSE]

SetCache(c) ==
    /\ link_mem' = c.lm
    /\ db_link_cache' = c.lk
    /\ ln' = c.ln
    /\ net' = c.net
    /\ next_id' = c.nid
    /\ db_network_cache' = c.nets
    /\ db_lookup_addr' = c.addr
    /\ db_lookup_vlan_networkid' = c.vnid
    /\ db_lookup_addr_ifindex' = c.ifad
    /\ db_fdb_cache' = c.fdb
    /\ target_networks' = c.tn
    /\ db_neigh_cache' = c.neigh
    /\ timers' = c.timers
    /\ nl_tx' = c.tx
    /\ probes' = c.probes

cacheVars == <<link_mem, db_link_cache, ln, net, next_id, db_network_cache,
               db_lookup_addr, db_lookup_vlan_networkid,
               db_lookup_addr_ifindex, db_fdb_cache, target_networks>>

\* the chunks g_new0(struct link_network_cache) can return: one that was
\* freed, or the first one never handed out
FreeSlots(c) ==
    LET used == DOMAIN c.ln
        fresh == LnSlots \ used
    IN {s \in used : ~c.ln[s].live}
         \cup (IF fresh = {} THEN {} ELSE {CHOOSE s \in fresh : \A t \in fresh : s <= t})

\* ------------------------------------------------------------ link table
\* g_new0 + the assignments of cache_add_link; link_ifindex is not assigned
cache_add_link(c, cmd) ==
    [c EXCEPT !.lm = MapInsert(@, cmd.ifindex,
                        [ifindex |-> cmd.ifindex, link_ifindex |-> 0,
                         ifname |-> cmd.ifname,
                         vlan_id |-> cmd.vlan_id, is_svi |-> FALSE,
                         ignore_link |-> FALSE,
                         network_list |-> <<>>, fdb_list |-> <<>>]),
              !.lk = @ \cup {cmd.ifindex}]

\* each attribute that differs from the cached one is assigned and sets the
\* local flag updated; times.updated is written when the flag is set
cache_update_link(c, cmd) ==
    LET l == c.lm[cmd.ifindex]
        updated == \/ l.link_ifindex # cmd.link_ifindex
                   \/ l.ifname # cmd.ifname
                   \/ l.vlan_id # cmd.vlan_id
    IN [c EXCEPT !.lm[cmd.ifindex].link_ifindex = cmd.link_ifindex,
                 !.lm[cmd.ifindex].ifname = cmd.ifname,
                 !.lm[cmd.ifindex].vlan_id = cmd.vlan_id,
                 !.res = IF updated THEN "updated" ELSE "unchanged"]

\* the hash table lookup of cache_get_link
cache_get_link(c, ifindex) == ifindex \in c.lk

\* ------------------------------------------------------ link <-> network
cache_add_link_network(c, s) ==
    LET b == c.ln[s]
        n == b.network
        l == b.link
    IN [c EXCEPT !.vnid = MapInsert(@, <<n, c.lm[l].vlan_id>>, s),
                 !.ifad = MapInsert(@, <<c.net[n].network, l>>, s),
                 !.net[n].links = Append(@, s),
                 !.net[n].refcnt = @ + 1,
                 !.lm[l].network_list = Append(@, s)]

\* The "Handle Link reference" loop compares each element of
\* link->network_list (a link_network_cache) with the network_cache pointer:
\* no element is ever equal to it, so the list keeps the binding.
\* s may be a chunk that is already freed (a dangling list element): the
\* fields are then read from freed memory.
cache_del_link_network(c, s) ==
    LET b == c.ln[s]
        n == b.network
        l == b.link
    IN [c EXCEPT !.vnid = MapRemove(@, <<n, c.lm[l].vlan_id>>),
                 !.ifad = MapRemove(@, <<c.net[n].network, l>>),
                 !.net[n].links = RemoveFirst(@, s),
                 !.net[n].refcnt = @ - 1,
                 !.ln[s].live = FALSE,
                 !.ub = @ \/ ~b.live]

RECURSIVE DelLinkNetworks(_, _)
DelLinkNetworks(c, list) ==
    IF list = <<>> THEN c
    ELSE DelLinkNetworks(cache_del_link_network(c, Head(list)), Tail(list))

\* The fdb loop removes the key {.ifindex, .vlan_id} whose mac is left zero.
RECURSIVE DelLinkFdbs(_, _)
DelLinkFdbs(c, list) ==
    IF list = <<>> THEN c
    ELSE DelLinkFdbs(
            [c EXCEPT !.fdb = MapRemove(@, <<ZeroMac, Head(list)[2],
                                             Head(list)[3]>>)],
            Tail(list))

\* precondition: the link is in the table (handle_link_del checks it).
\* The freed chunk keeps ifindex and vlan_id, the fields a later read through
\* a dangling pointer uses.
cache_del_link(c, ifindex) ==
    LET link == c.lm[ifindex]
        c1 == DelLinkNetworks(c, link.network_list)
        c2 == DelLinkFdbs(c1, link.fdb_list)
    IN [c2 EXCEPT !.lk = @ \ {ifindex},
                  !.lm[ifindex] = [ifindex |-> ifindex, link_ifindex |-> 0,
                                   vlan_id |-> link.vlan_id, is_svi |-> FALSE,
                                   network_list |-> <<>>, fdb_list |-> <<>>]]

\* first binding of the link whose network contains ip; 0 if none.
RECURSIVE FindByAddr(_, _, _)
FindByAddr(c, list, ip) ==
    IF list = <<>> THEN 0
    ELSE LET n == c.net[c.ln[Head(list)].network]
         IN IF compare_ipv6_addresses(
                   calculate_network_using_cidr(ip, n.prefixlen), n.network)
            THEN Head(list)
            ELSE FindByAddr(c, Tail(list), ip)

\* the list elements read before (and including) the one that is returned
RECURSIVE ScannedByAddr(_, _, _)
ScannedByAddr(c, list, ip) ==
    IF list = <<>> THEN {}
    ELSE LET n == c.net[c.ln[Head(list)].network]
         IN IF compare_ipv6_addresses(
                   calculate_network_using_cidr(ip, n.prefixlen), n.network)
            THEN {Head(list)}
            ELSE {Head(list)} \cup ScannedByAddr(c, Tail(list), ip)

cache_get_link_network_by_addr(c, ifindex, ip) ==
    [slot |-> FindByAddr(c, c.lm[ifindex].network_list, ip),
     ub |-> \E s \in ScannedByAddr(c, c.lm[ifindex].network_list, ip) :
               ~c.ln[s].live]

cache_get_link_network(c, ifindex, network_ip) ==
    IF <<network_ip, ifindex>> \in DOMAIN c.ifad
    THEN c.ifad[<<network_ip, ifindex>>] ELSE 0

\* ---------------------------------------------------------- network table
cache_get_network(c, cmd) ==
    IF cmd.network \in DOMAIN c.addr THEN c.addr[cmd.network] ELSE 0

\* s: the chunk g_new0 returns for the link_network; bpf_ok: whether
\* bpf_map_update_elem succeeds.  ret is the new id, or 0 for NULL.  On the
\* err3 path g_hash_table_remove frees addr_key (the table's key destructor
\* is g_free) and g_free(addr_key) frees it again.
cache_add_network(c, cmd, s, bpf_ok) ==
    LET id == c.nid
        c1 == [c EXCEPT
                 !.nid = id + 1,
                 !.net = MapInsert(@, id, [network |-> cmd.network,
                                           prefixlen |-> cmd.prefixlen,
                                           refcnt |-> 0, links |-> <<>>]),
                 !.nets = @ \cup {id},
                 !.addr = MapInsert(@, cmd.network, id),
                 !.ln = MapInsert(@, s, [link |-> cmd.ifindex, network |-> id,
                                         ip |-> cmd.ip, live |-> TRUE])]
        c2 == cache_add_link_network(c1, s)
    IN IF bpf_ok
       THEN [c2 EXCEPT !.tn = MapInsert(@, <<cmd.prefixlen, cmd.network>>, id),
                       !.ret = id]
       ELSE [c2 EXCEPT !.addr = MapRemove(@, cmd.network),
                       !.nets = @ \ {id},
                       !.ub = TRUE,
                       !.ret = 0]

\* first binding of the list whose network has address ip and that prefixlen
RECURSIVE FindNetworkOfLink(_, _, _)
FindNetworkOfLink(c, list, cmd) ==
    IF list = <<>> THEN 0
    ELSE LET n == c.net[c.ln[Head(list)].network]
         IN IF compare_ipv6_addresses(n.network, cmd.ip)
               /\ n.prefixlen = cmd.prefixlen
            THEN Head(list)
            ELSE FindNetworkOfLink(c, Tail(list), cmd)

RECURSIVE ScannedOfLink(_, _, _)
ScannedOfLink(c, list, cmd) ==
    IF list = <<>> THEN {}
    ELSE LET n == c.net[c.ln[Head(list)].network]
         IN IF compare_ipv6_addresses(n.network, cmd.ip)
               /\ n.prefixlen = cmd.prefixlen
            THEN {Head(list)}
            ELSE {Head(list)} \cup ScannedOfLink(c, Tail(list), cmd)

\* deleting a key that is not in the map fails and changes nothing
bpf_map_delete_elem(tn, key) == MapRemove(tn, key)

\* The loop over network->links frees the list node it stands on
\* (g_list_delete_link) and then reads its next field: the node was unlinked
\* with next = NULL before it was freed, so a build that goes on sees the end
\* of the list after the first binding.
cache_del_network(c, cmd) ==
    IF ~cache_get_link(c, cmd.ifindex) THEN c
    ELSE
    LET list == c.lm[cmd.ifindex].network_list
        hit == FindNetworkOfLink(c, list, cmd)
        scanned == ScannedOfLink(c, list, cmd)
        c0 == [c EXCEPT !.ub = @ \/ \E s \in scanned : ~c.ln[s].live]
    IN IF hit = 0 THEN c0
       ELSE
       LET n == c.ln[hit].network
           c1 == [c0 EXCEPT !.nets = @ \ {n},
                            !.addr = MapRemove(@, c.net[n].network)]
           c2 == IF c1.net[n].links = <<>> THEN c1
                 ELSE [cache_del_link_network(c1, Head(c1.net[n].links))
                         EXCEPT !.ub = TRUE]
       IN [c2 EXCEPT !.tn = bpf_map_delete_elem(@, <<cmd.prefixlen, cmd.ip>>),
                     !.res = "removed"]

\* -------------------------------------------------------------- fdb table
cache_get_fdb(c, cmd) == <<cmd.mac, cmd.ifindex, cmd.vlan_id>> \in DOMAIN c.fdb

\* the entry is not appended to link->fdb_list
cache_add_fdb(c, cmd) ==
    IF ~cache_get_link(c, cmd.ifindex) THEN c
    ELSE [c EXCEPT !.fdb = MapInsert(@, <<cmd.mac, cmd.ifindex, cmd.vlan_id>>,
                              [link |-> cmd.ifindex])]

cache_del_fdb(c, cmd) ==
    [c EXCEPT !.fdb = MapRemove(@, <<cmd.mac, cmd.ifindex, cmd.vlan_id>>)]


\* ------------------------------------------------------ netlink commands
\* LINK ADD: the bridge itself, and a second interface that is a VLAN device
\* on the bridge (vlan 0 or 1) or is not attached to it
LinkCmd(i, l, v, name) ==
    [ifindex |-> i, link_ifindex |-> l, vlan_id |-> v, ifname |-> name]
LinkCmds ==
    {LinkCmd(1, IfidxMon, 0, "vlan1"), LinkCmd(2, IfidxMon, 0, "vlan2"),
     LinkCmd(2, IfidxMon, 1, "vlan2"), LinkCmd(2, 0, 1, "vlan2")}
SviLinkCmds == {cmd \in LinkCmds : cmd.link_ifindex = IfidxMon}

\* -f REGEX: env.has_deny_filter, and the interface names regexec matches
\* against env.deny_filter
has_deny_filter == TRUE
DenyMatches == {"swp1"}
\* the SVI of interface 1 under a name the filter denies
DeniedLinkCmds == {LinkCmd(1, IfidxMon, 0, "swp1")}

\* the netlink layer fills network with the address masked to the prefix
AddrCmd(i, a, p) ==
    [ifindex |-> i, ip |-> a, prefixlen |-> p,
     network |-> calculate_network_using_cidr(a, p)]
AddrPrefixes == {<<HostIp, AddrBits - 1>>, <<NetIp, AddrBits - 1>>,
                 <<NetIp, AddrBits>>}
AddrCmds == {AddrCmd(i, ap[1], ap[2]) : i \in Ifindexes, ap \in AddrPrefixes}

FdbCmds == [mac : FdbMacs, ifindex : {0} \cup Ifindexes, vlan_id : VlanIds,
            is_externally_learned : BOOLEAN]

\* NEIGH ADD / NEIGH DEL of the kernel's neighbor table
\* of interface 1 in every NUD state, and one event for each of the filters
NeighCmd(i, m, nud, ext) ==
    [ifindex |-> i, ip |-> HostIp, mac |-> m, nud_state |-> nud,
     is_externally_learned |-> ext]
NeighCmds ==
    {NeighCmd(1, 1, nud, FALSE) : nud \in NudStates}
      \cup {NeighCmd(0, 1, NUD_REACHABLE, FALSE),
            NeighCmd(1, ZeroMac, NUD_REACHABLE, FALSE),
            NeighCmd(1, 1, NUD_REACHABLE, TRUE)}
NeighDelCmds == [ifindex : {1, 2}, ip : {HostIp}]

\* what the eBPF program reports of an ARP reply or neighbor advertisement
Replies == [network_id : 1..MaxNet, vlan_id : {0}, mac : FdbMacs,
            ip : {HostIp}]

\* --------------------------------------------------------- link handlers
filter_deny_interfaces(ifname) ==
    IF ~has_deny_filter THEN FALSE ELSE ifname \in DenyMatches

handle_link_add(c, cmd) ==
    IF cache_get_link(c, cmd.ifindex)
    THEN cache_update_link(c, cmd)
    ELSE [cache_add_link(c, cmd) EXCEPT
            !.lm[cmd.ifindex].is_svi = (cmd.link_ifindex = IfidxMon),
            !.lm[cmd.ifindex].ignore_link = filter_deny_interfaces(cmd.ifname),
            !.res = "added"]

\* handle_link_del failing on a link that is not cached
handle_link_del_strict(c, cmd) ==
    IF ~cache_get_link(c, cmd.ifindex)
    THEN [c EXCEPT !.ret = -1, !.res = "unknown"]
    ELSE [cache_del_link(c, cmd.ifindex) EXCEPT !.res = "removed"]

handle_link_del(c, cmd) ==
    IF ~cache_get_link(c, cmd.ifindex) THEN [c EXCEPT !.res = "unknown"]
    ELSE [cache_del_link(c, cmd.ifindex) EXCEPT !.res = "removed"]

\* ---------------------------------------------------------- addr handlers
\* whether handle_addr_add reaches cache_add_network / cache_new_link_network
\* env.disable_ipv6ll_filter: the default, without --disable-ipv6ll-filter
disable_ipv6ll_filter == FALSE
\* the link-local prefix: the addresses whose leading bit is zero
IN6_IS_ADDR_LINKLOCAL(ip) == ip \div Pow2(AddrBits - 1) = 0

\* a handler that does not look at is_svi
AddrAddPassesAnyLink(c, cmd) ==
    /\ has_links
    /\ ~(~disable_ipv6ll_filter /\ IN6_IS_ADDR_LINKLOCAL(cmd.ip))
    /\ cache_get_link(c, cmd.ifindex)

AddrAddPasses(c, cmd) ==
    /\ has_links
    /\ ~(~disable_ipv6ll_filter /\ IN6_IS_ADDR_LINKLOCAL(cmd.ip))
    /\ cache_get_link(c, cmd.ifindex)
    /\ c.lm[cmd.ifindex].is_svi

AddrAddCreatesNetwork(c, cmd) ==
    AddrAddPasses(c, cmd) /\ cache_get_network(c, cmd) = 0

AddrAddCreatesBinding(c, cmd) ==
    /\ AddrAddPasses(c, cmd)
    /\ cache_get_network(c, cmd) # 0
    /\ cache_get_link_network(c, cmd.ifindex,
                              c.net[cache_get_network(c, cmd)].network) = 0

handle_addr_add(c, cmd, s, bpf_ok) ==
    IF ~AddrAddPasses(c, cmd) THEN c
    ELSE IF cache_get_network(c, cmd) = 0
    THEN LET c1 == cache_add_network(c, cmd, s, bpf_ok)
         IN IF c1.ret = 0 THEN [c1 EXCEPT !.ret = -1, !.res = "failed"]
            ELSE [c1 EXCEPT !.ret = 0, !.res = "network"]
    ELSE LET n == cache_get_network(c, cmd)
         IN IF cache_get_link_network(c, cmd.ifindex, c.net[n].network) # 0
            THEN [c EXCEPT !.res = "known"]
            ELSE [cache_add_link_network(
                    [c EXCEPT !.ln = MapInsert(@, s,
                        [link |-> cmd.ifindex, network |-> n,
                         ip |-> calculate_network_using_cidr(c.net[n].network,
                                                             cmd.prefixlen),
                         live |-> TRUE])], s)
                  EXCEPT !.res = "binding"]

handle_addr_del(c, cmd) ==
    IF cache_get_network(c, cmd) = 0 THEN [c EXCEPT !.res = "unknown"]
    ELSE LET c1 == cache_del_network(c, cmd)
         IN IF c1.res = "removed" THEN c1 ELSE [c1 EXCEPT !.res = "notfound"]

\* ----------------------------------------------------------- fdb handlers
\* a handler that waits for the link dump only
handle_fdb_add_after_links(c, cmd) ==
    IF ~has_links THEN c
    ELSE IF cmd.ifindex = 0 THEN c
    ELSE IF ~cache_get_link(c, cmd.ifindex) THEN [c EXCEPT !.res = "nolink"]
    ELSE IF cmd.is_externally_learned THEN [c EXCEPT !.res = "external"]
    ELSE IF cache_get_fdb(c, cmd) THEN [c EXCEPT !.res = "known"]
    ELSE [cache_add_fdb(c, cmd) EXCEPT !.res = "added"]

handle_fdb_add(c, cmd) ==
    IF ~(has_links /\ has_networks) THEN c
    ELSE IF cmd.ifindex = 0 THEN c
    ELSE IF ~cache_get_link(c, cmd.ifindex) THEN [c EXCEPT !.res = "nolink"]
    ELSE IF cmd.is_externally_learned THEN [c EXCEPT !.res = "external"]
    ELSE IF cache_get_fdb(c, cmd) THEN [c EXCEPT !.res = "known"]
    ELSE [cache_add_fdb(c, cmd) EXCEPT !.res = "added"]

handle_fdb_del(c, cmd) ==
    IF ~cache_get_fdb(c, cmd) THEN [c EXCEPT !.res = "unknown"]
    ELSE [cache_del_fdb(c, cmd) EXCEPT !.res = "removed"]

\* ------------------------------------------------------------ neigh table
cache_get_neigh(c, cmd) == <<cmd.ifindex, cmd.ip>> \in DOMAIN c.neigh

\* timer: whether neigh->timer is a non-NULL pointer
cache_add_neigh(c, s, cmd) ==
    [c EXCEPT !.neigh = MapInsert(@, <<cmd.ifindex, cmd.ip>>,
                 [mac |-> cmd.mac, nud_state |-> cmd.nud_state,
                  sending_link_network |-> s, timer |-> FALSE])]

cache_neigh_update(c, cmd) ==
    [c EXCEPT !.neigh[<<cmd.ifindex, cmd.ip>>].mac = cmd.mac,
              !.neigh[<<cmd.ifindex, cmd.ip>>].nud_state = cmd.nud_state]

cache_del_neigh(c, key) == [c EXCEPT !.neigh = MapRemove(@, key)]

cache_get_link_network_by_reply(c, reply) ==
    IF <<reply.network_id, reply.vlan_id>> \in DOMAIN c.vnid
    THEN c.vnid[<<reply.network_id, reply.vlan_id>>] ELSE 0

\* a lookup that leaves the MAC of the key zero
cache_get_fdb_by_reply_nomac(c, reply, ifindex) ==
    <<ZeroMac, ifindex, reply.vlan_id>> \in DOMAIN c.fdb

cache_get_fdb_by_reply(c, reply, ifindex) ==
    <<reply.mac, ifindex, reply.vlan_id>> \in DOMAIN c.fdb

\* ------------------------------------------- timer and netlink TX layers
\* timers[key] is the number of pending entries whose neigh is key
timer_add_neigh(c, key) ==
    [c EXCEPT !.timers = MapInsert(@, key,
                  IF key \in DOMAIN @ THEN @[key] + 1 ELSE 1),
              !.neigh[key].timer = TRUE]

\* removes and frees the entry; a pointer to an entry that is gone already
\* is a pointer to freed memory
timer_remove_event(c, key) ==
    IF key \notin DOMAIN c.timers THEN [c EXCEPT !.ub = TRUE]
    ELSE IF c.timers[key] = 1 THEN [c EXCEPT !.timers = MapRemove(@, key)]
    ELSE [c EXCEPT !.timers[key] = @ - 1]

\* queues an RTM_NEWNEIGH request for the kernel
netlink_send_neigh(c, reply, ifindex) ==
    [c EXCEPT !.tx = Append(@, [ifindex |-> ifindex, mac |-> reply.mac,
                                ip |-> reply.ip])]

\* ----------------------------------------------------- probes and timers
\* a request that is never built
skip_gratuitous_neighbor_request(c, key) == c

\* send_arp_request / send_neighbor_solicitation read the source address and
\* the link through neigh->sending_link_network
send_gratuitous_neighbor_request(c, key) ==
    LET s == c.neigh[key].sending_link_network
    IN [c EXCEPT !.probes = Append(@, [ifindex |-> c.ln[s].link,
                                       src_ip |-> c.ln[s].ip,
                                       dst_ip |-> key[2],
                                       dst_mac |-> c.neigh[key].mac]),
                 !.ub = @ \/ ~c.ln[s].live]

\* sysctl_ok: whether base_reachable_time_ms of the link could be read
get_next_gratuitous_time(c, key, sysctl_ok) ==
    [c EXCEPT !.ub = @ \/ ~c.ln[c.neigh[key].sending_link_network].live,
              !.ret = IF sysctl_ok THEN 0 ELSE -1,
              !.asked = TRUE]

\* new_neigh_timer giving up the neighbor whose timer it cannot arm
\* *seconds = base_reachable_time / 4.0 / 1000.0 + (rand() % 2000) / 1000.0,
\* in exact arithmetic and in units of a quarter of a millisecond (4000 to
\* the second), in which every term is an integer
next_gratuitous_whole(base_reachable_time, rand) ==
    4 * base_reachable_time + 4 * (rand % 2000)

next_gratuitous_quarter_ms(base_reachable_time, rand) ==
    base_reachable_time + 4 * (rand % 2000)

new_neigh_timer_dropping(c, key, sysctl_ok) ==
    LET c1 == get_next_gratuitous_time(c, key, sysctl_ok)
    IN IF c1.ret # 0 THEN cache_del_neigh(c1, key)
       ELSE timer_add_neigh(c1, key)

new_neigh_timer(c, key, sysctl_ok) ==
    LET c1 == get_next_gratuitous_time(c, key, sysctl_ok)
    IN IF c1.ret # 0 THEN c1 ELSE timer_add_neigh(c1, key)

\* a timer handler that leaves neigh->timer as it is
handle_timer_neigh_event_keeping(c, key) ==
    [send_gratuitous_neighbor_request(timer_remove_event(c, key), key)
       EXCEPT !.res = "fired"]

\* the timer layer has taken the expired entry out of its queue
handle_timer_neigh_event(c, key) ==
    [send_gratuitous_neighbor_request(timer_remove_event(c, key), key)
       EXCEPT !.neigh[key].timer = FALSE, !.res = "fired"]

\* --------------------------------------------------------- neigh handlers
\* a guard that does not wait for the fdb dump
NeighAddReadyNoFdb == has_links /\ has_networks

\* "Ignore neigh events until we are initialized"
NeighAddReady == has_links /\ has_networks /\ has_fdb

handle_neigh_add(c, cmd, sysctl_ok) ==
    IF ~NeighAddReady THEN c
    ELSE IF cmd.ifindex = 0 THEN c
    ELSE IF is_zero_mac(cmd.mac) THEN c
    ELSE IF cmd.is_externally_learned THEN c
    ELSE IF ~cache_get_link(c, cmd.ifindex) THEN [c EXCEPT !.res = "nolink"]
    ELSE
    LET found == cache_get_link_network_by_addr(c, cmd.ifindex, cmd.ip)
        c0 == [c EXCEPT !.ub = @ \/ found.ub]
        key == <<cmd.ifindex, cmd.ip>>
    IN IF found.slot = 0 THEN [c0 EXCEPT !.res = "nonet"]
       ELSE
       LET c1 == IF cache_get_neigh(c0, cmd)
                 THEN [cache_neigh_update(c0, cmd) EXCEPT !.res = "updated"]
                 ELSE [cache_add_neigh(c0, found.slot, cmd)
                         EXCEPT !.res = "added"]
           neigh == c1.neigh[key]
           c2 == IF neigh.nud_state = NUD_REACHABLE /\ ~neigh.timer
                 THEN new_neigh_timer(c1, key, sysctl_ok)
                 ELSE c1
       IN IF c2.ret # 0 THEN [c2 EXCEPT !.ret = 0]
          ELSE IF neigh.nud_state = NUD_STALE
          THEN send_gratuitous_neighbor_request(c2, key)
          ELSE c2

\* a NEIGH DEL that leaves the pending timer entry of the neighbor behind
handle_neigh_del_leaving_timer(c, cmd) ==
    LET key == <<cmd.ifindex, cmd.ip>>
    IN IF ~cache_get_neigh(c, cmd) THEN [c EXCEPT !.res = "unknown"]
       ELSE [cache_del_neigh(c, key)
               EXCEPT !.res = IF c.neigh[key].timer THEN "cancelled"
                              ELSE "removed"]

handle_neigh_del(c, cmd) ==
    LET key == <<cmd.ifindex, cmd.ip>>
    IN IF ~cache_get_neigh(c, cmd) THEN [c EXCEPT !.res = "unknown"]
       ELSE LET c1 == IF c.neigh[key].timer
                      THEN timer_remove_event(c, key)
                      ELSE c
            IN [cache_del_neigh(c1, key)
                  EXCEPT !.res = IF c.neigh[key].timer THEN "cancelled"
                                 ELSE "removed"]

\* ------------------------------------------------------- reply correlator
\* a reply handler that leaves the pending entry in the timer queue
keep_old_timer(c, key) == c

\* "Remove old timer": neigh->timer is not reset
remove_old_timer(c, key) ==
    IF c.neigh[key].timer THEN timer_remove_event(c, key) ELSE c

handle_neighbor_reply(c, reply, sysctl_ok) ==
    LET s == cache_get_link_network_by_reply(c, reply)
    IN IF s = 0 THEN [c EXCEPT !.ret = 1, !.res = "nolinknet"]
       ELSE
       LET ifindex == c.ln[s].link
           key == <<ifindex, reply.ip>>
           c0 == [c EXCEPT !.ub = @ \/ ~c.ln[s].live]
       IN IF cache_get_fdb_by_reply(c0, reply, ifindex)
          THEN [c0 EXCEPT !.res = "fdb_hit"]
          ELSE IF key \in DOMAIN c0.neigh
          THEN LET c1 == remove_old_timer(c0, key)
                   c2 == new_neigh_timer(c1, key, sysctl_ok)
               IN IF c2.ret # 0
                  THEN [c2 EXCEPT !.ret = 1, !.res = "timer_failed"]
                  ELSE [netlink_send_neigh(c2, reply, ifindex)
                          EXCEPT !.res = "refreshed"]
          ELSE [netlink_send_neigh(c0, reply, ifindex) EXCEPT !.res = "sent"]

\* ------------------------------------------------- unreferenced memory
Range(f) == {f[x] : x \in DOMAIN f}

\* the link_network chunks some pointer of the program refers to
RefSlots(c) ==
    UNION {SeqSet(c.lm[i].network_list) : i \in c.lk}
      \cup Range(c.vnid) \cup Range(c.ifad)
      \cup {c.neigh[k].sending_link_network : k \in DOMAIN c.neigh}

\* drop the freed chunks nothing refers to
Forget(c) ==
    LET rs == RefSlots(c)
        rn == c.nets \cup Range(c.addr) \cup {c.ln[s].network : s \in rs}
        rl == c.lk \cup {c.ln[s].link : s \in rs}
                   \cup {c.fdb[k].link : k \in DOMAIN c.fdb}
    IN [c EXCEPT
          !.ln = [s \in {x \in DOMAIN c.ln : c.ln[x].live \/ x \in rs}
                    |-> c.ln[s]],
          !.net = [n \in rn |-> c.net[n]],
          !.lm = [i \in rl |-> c.lm[i]]]

\* ---------------------------------------------------------------- actions
\* `last` observes the events of the handlers listed here, with the path
\* they took; of any other event it keeps no trace
Watched == {"reply", "neigh_add", "neigh_del"}
Observe(op, res) ==
    IF trace \/ op \in Watched THEN [op |-> op, res |-> res]
    ELSE [op |-> "other", res |-> "none"]

InitCache ==
    /\ link_mem = EmptyMap
    /\ db_link_cache = {}
    /\ ln = EmptyMap
    /\ net = EmptyMap
    /\ next_id = 1
    /\ db_network_cache = {}
    /\ db_lookup_addr = EmptyMap
    /\ db_lookup_vlan_networkid = EmptyMap
    /\ db_lookup_addr_ifindex = EmptyMap
    /\ db_fdb_cache = EmptyMap
    /\ target_networks = EmptyMap

InitNeigh ==
    /\ db_neigh_cache = EmptyMap
    /\ timers = EmptyMap
    /\ nl_tx = <<>>
    /\ probes = <<>>

NoTiming == [at |-> "unused"]

InitRun ==
    /\ pc = "run"
    /\ has_links = FALSE /\ has_networks = FALSE /\ has_fdb = FALSE
    /\ InitCache
    /\ InitNeigh
    /\ last = [op |-> "init", res |-> "none"]
    /\ assigned = {}

\* without -c the loop never reads env.count
NoCount == [at |-> "uncounted"]

Init ==
    /\ InitRun /\ trace = FALSE /\ timing = NoTiming /\ loop = NoCount
    /\ frame = [at |-> "unsent"]

\* the same start, with every kind of event recorded in last
InitTraced ==
    /\ InitRun /\ trace = TRUE /\ timing = NoTiming /\ loop = NoCount
    /\ frame = [at |-> "unsent"]

\* the same start, at a call of get_next_gratuitous_time that has read
\* base_reachable_time_ms = base and is about to get rand from rand()
InitTime ==
    /\ InitRun /\ trace = FALSE /\ loop = NoCount
    /\ frame = [at |-> "unsent"]
    /\ timing \in [at : {"read"}, base : BaseTimes, rand : Rands,
                    quarter_ms : {0}]

\* the process is killed: its memory, and the eBPF map it owns, are gone
Crash(op) ==
    /\ pc' = "crashed"
    /\ last' = Observe(op, "crash")
    /\ SetCache([Cache EXCEPT !.lm = EmptyMap, !.lk = {}, !.ln = EmptyMap,
                               !.net = EmptyMap, !.nid = 1, !.nets = {},
                               !.addr = EmptyMap, !.vnid = EmptyMap,
                               !.ifad = EmptyMap, !.fdb = EmptyMap,
                               !.tn = EmptyMap, !.neigh = EmptyMap,
                               !.timers = EmptyMap, !.tx = <<>>])
    /\ UNCHANGED envVars

\* The outcome of a netlink command handler: a handler that read freed
\* memory may have killed the process; a handler that returns non-zero makes
\* handle_netlink fail and main_loop return.
Returns(op, c) ==
    \/ c.ub /\ Crash(op)
    \/ /\ SetCache(Forget(c))
       /\ pc' = (IF c.ret # 0 THEN "stopped" ELSE "run")
       /\ last' = Observe(op, c.res)
       /\ UNCHANGED envVars

Outcome(op, c) == Returns(op, c) /\ UNCHANGED auxVars

\* the initial dumps of the netlink layer complete
DumpLinksDone ==
    /\ pc = "run" /\ ~has_links
    /\ has_links' = TRUE
    /\ last' = Observe("dump", "links")
    /\ probes' = <<>>
    /\ UNCHANGED <<pc, has_networks, has_fdb, cacheVars, db_neigh_cache,
                   timers, nl_tx, auxVars>>

DumpNetworksDone ==
    /\ pc = "run" /\ ~has_networks
    /\ has_networks' = TRUE
    /\ last' = Observe("dump", "networks")
    /\ probes' = <<>>
    /\ UNCHANGED <<pc, has_links, has_fdb, cacheVars, db_neigh_cache,
                   timers, nl_tx, auxVars>>

DumpFdbDone ==
    /\ pc = "run" /\ ~has_fdb
    /\ has_fdb' = TRUE
    /\ last' = Observe("dump", "fdb")
    /\ probes' = <<>>
    /\ UNCHANGED <<pc, has_links, has_networks, cacheVars, db_neigh_cache,
                   timers, nl_tx, auxVars>>

LinkAddOf(cmds) ==
    /\ pc = "run"
    /\ \E cmd \in cmds : \E c \in {handle_link_add(Cache, cmd)} :
         Outcome("link_add", c)

LinkDelOf(ifs) ==
    /\ pc = "run"
    /\ \E i \in ifs : \E c \in {handle_link_del(Cache, [ifindex |-> i])} :
         Outcome("link_del", c)

\* a new network needs an id below the cap, a new binding a chunk
AddrAddOf(cmds) ==
    /\ pc = "run"
    /\ \E cmd \in cmds, s \in LnSlots, bpf_ok \in BOOLEAN :
         /\ IF AddrAddCreatesNetwork(Cache, cmd)
            THEN s \in FreeSlots(Cache) /\ next_id <= MaxNet
            ELSE IF AddrAddCreatesBinding(Cache, cmd)
            THEN s \in FreeSlots(Cache) /\ bpf_ok
            ELSE s = 1 /\ bpf_ok
         /\ \E c \in {handle_addr_add(Cache, cmd, s, bpf_ok)} :
              Outcome("addr_add", c)

AddrDelOf(cmds) ==
    /\ pc = "run"
    /\ \E cmd \in cmds : \E c \in {handle_addr_del(Cache, cmd)} :
         Outcome("addr_del", c)

\* The same two events with the kernel's side recorded: an ADDR ADD that
\* handle_addr_add accepts puts the address on the SVI, and the kernel sends
\* ADDR DEL for an address the interface has.
AddrKey(cmd) == <<cmd.ifindex, cmd.ip, cmd.prefixlen>>

AddrAddTracked(cmds) ==
    /\ pc = "run"
    /\ \E cmd \in cmds, s \in LnSlots, bpf_ok \in BOOLEAN :
         /\ IF AddrAddCreatesNetwork(Cache, cmd)
            THEN s \in FreeSlots(Cache) /\ next_id <= MaxNet
            ELSE IF AddrAddCreatesBinding(Cache, cmd)
            THEN s \in FreeSlots(Cache) /\ bpf_ok
            ELSE s = 1 /\ bpf_ok
         /\ \E c \in {handle_addr_add(Cache, cmd, s, bpf_ok)} :
              /\ Returns("addr_add", c)
              /\ assigned' = (IF pc' # "run" THEN {}
                              ELSE IF AddrAddPasses(Cache, cmd)
                              THEN assigned \cup {AddrKey(cmd)}
                              ELSE assigned)
              /\ UNCHANGED <<trace, timing, loop, frame>>

AddrDelTracked(cmds) ==
    /\ pc = "run"
    /\ \E cmd \in cmds :
         /\ AddrKey(cmd) \in assigned
         /\ \E c \in {handle_addr_del(Cache, cmd)} :
              /\ Returns("addr_del", c)
              /\ assigned' = (IF pc' # "run" THEN {}
                              ELSE assigned \ {AddrKey(cmd)})
              /\ UNCHANGED <<trace, timing, loop, frame>>

FdbAddOf(cmds) ==
    /\ pc = "run"
    /\ \E cmd \in cmds : \E c \in {handle_fdb_add(Cache, cmd)} :
         Outcome("fdb_add", c)

FdbDelOf(cmds) ==
    /\ pc = "run"
    /\ \E cmd \in cmds : \E c \in {handle_fdb_del(Cache, cmd)} :
         Outcome("fdb_del", c)

NeighAddOf(cmds) ==
    /\ pc = "run"
    /\ \E cmd \in cmds, sysctl_ok \in BOOLEAN :
         \E c \in {handle_neigh_add(Cache, cmd, sysctl_ok)} :
           (sysctl_ok \/ c.asked) /\ Outcome("neigh_add", c)

NeighDelOf(cmds) ==
    /\ pc = "run"
    /\ \E cmd \in cmds : \E c \in {handle_neigh_del(Cache, cmd)} :
         Outcome("neigh_del", c)

\* ring_buffer__consume does not fail on a positive return of the callback;
\* the TX queue is capped between two flushes.  Whether the sysctl file can
\* be read is a choice only where the handler reads it.
ReplyOf(replies) ==
    /\ pc = "run"
    /\ Len(nl_tx) < MaxTx
    /\ \E reply \in replies, sysctl_ok \in BOOLEAN :
         \E c \in {handle_neighbor_reply(Cache, reply, sysctl_ok)} :
           (sysctl_ok \/ c.asked) /\ Outcome("reply", [c EXCEPT !.ret = 0])

\* handle_timer_events: a pending entry expires
TimerFire ==
    /\ pc = "run"
    /\ \E key \in DOMAIN timers :
         \E c \in {handle_timer_neigh_event(Cache, key)} :
           Outcome("timer", c)

\* netlink_queue_send_next: the head of the TX queue goes to the kernel
Flush ==
    /\ pc = "run"
    /\ nl_tx # <<>>
    /\ Outcome("flush", [Cache EXCEPT !.tx = Tail(@), !.res = "sent"])

\* get_next_gratuitous_time computes the interval from what it has read
ComputeTime ==
    /\ timing.at = "read"
    /\ timing' = [timing EXCEPT
                    !.at = "computed",
                    !.quarter_ms = next_gratuitous_quarter_ms(timing.base,
                                                              timing.rand)]
    /\ UNCHANGED <<pc, envVars, cacheVars, db_neigh_cache, timers, nl_tx,
                   probes, last, trace, assigned, loop, frame>>

\* ------------------------------------------------- main_loop under -c N
\* started with -c N: env.has_count, env.count = N
InitCount ==
    /\ InitRun /\ trace = FALSE /\ timing = NoTiming
    /\ frame = [at |-> "unsent"]
    /\ loop \in [at : {"top"}, count : 1..MaxCount, last_round : {FALSE}]

\* the head of the while loop: break on last_round, set it when the count
\* is used up, then block in epoll_wait
LoopTop ==
    /\ pc = "run" /\ loop.at = "top"
    /\ IF loop.last_round
       THEN pc' = "stopped" /\ loop' = [loop EXCEPT !.at = "done"]
       ELSE /\ pc' = pc
            /\ loop' = [loop EXCEPT !.at = "wait",
                                    !.last_round = (loop.count <= 0)]
    /\ probes' = <<>>
    /\ last' = Observe("loop", "top")
    /\ UNCHANGED <<envVars, cacheVars, db_neigh_cache, timers, nl_tx, trace,
                   assigned, timing, frame>>

\* epoll_wait returns: some file descriptor is ready
Wake ==
    /\ pc = "run" /\ loop.at = "wait"
    /\ loop' = [loop EXCEPT !.at = "round"]
    /\ probes' = <<>>
    /\ last' = Observe("loop", "wake")
    /\ UNCHANGED <<pc, envVars, cacheVars, db_neigh_cache, timers, nl_tx,
                   trace, assigned, timing, frame>>

\* after the netlink events of the round, ring_buffer__consume calls
\* handle_neighbor_reply for one more record of the ring buffer: env.count--
\* precedes the correlation
CountedReply ==
    /\ pc = "run" /\ loop.at \in {"round", "ring"}
    /\ Len(nl_tx) < MaxTx /\ loop.count > -MaxCount
    /\ \E reply \in Replies, sysctl_ok \in BOOLEAN :
         \E c \in {handle_neighbor_reply(Cache, reply, sysctl_ok)} :
           /\ (sysctl_ok \/ c.asked)
           /\ Returns("reply", [c EXCEPT !.ret = 0])
    /\ loop' = [loop EXCEPT !.count = @ - 1, !.at = "ring"]
    /\ UNCHANGED <<trace, assigned, timing, frame>>

\* the netlink events of a round
RoundEvent(A) == loop.at = "round" /\ A

\* the round ends with netlink_queue_send_next and goes back to the head
EndRound ==
    /\ pc = "run" /\ loop.at \in {"round", "ring"}
    /\ Returns("flush", [Cache EXCEPT
                           !.tx = IF @ = <<>> THEN @ ELSE Tail(@),
                           !.res = "sent"])
    /\ loop' = [loop EXCEPT !.at = "top"]
    /\ UNCHANGED <<trace, assigned, timing, frame>>

LinkAdd == LinkAddOf({cmd \in SviLinkCmds : cmd.vlan_id = 0})
LinkDel == LinkDelOf(Ifindexes)
AddrAdd == AddrAddOf(AddrCmds)
AddrDel == AddrDelOf(AddrCmds)

\* one SVI with one address, its neighbors and the replies for them
LinkAdd1 == LinkAddOf({cmd \in SviLinkCmds : cmd.ifindex = 1})
LinkDel1 == LinkDelOf({1})
AddrAdd1 == AddrAddOf({AddrCmd(1, NetIp, AddrBits - 1)})
AddrDel1 == AddrDelOf({AddrCmd(1, NetIp, AddrBits - 1)})
FdbAdd1 == FdbAddOf({cmd \in FdbCmds : cmd.ifindex = 1 /\ cmd.vlan_id = 0})
FdbDel1 == FdbDelOf({cmd \in FdbCmds : cmd.ifindex = 1 /\ cmd.vlan_id = 0})
NeighAdd == NeighAddOf(NeighCmds)
NeighDel == NeighDelOf(NeighDelCmds)
Reply == ReplyOf(Replies)

NextTopo == DumpLinksDone \/ LinkAdd \/ LinkDel \/ AddrAdd \/ AddrDel
SpecTopo == Init /\ [][NextTopo]_vars

NextNeigh ==
    \/ DumpLinksDone \/ DumpNetworksDone \/ DumpFdbDone
    \/ LinkAdd1 \/ LinkDel1 \/ AddrAdd1 \/ AddrDel1 \/ FdbAdd1 \/ FdbDel1
    \/ NeighAdd \/ NeighDel \/ Reply \/ TimerFire \/ Flush
SpecNeigh == Init /\ [][NextNeigh]_vars

\* two SVIs and the two addresses of one network, no link removal
SameNetCmds == {cmd \in AddrCmds : cmd.prefixlen = AddrBits - 1}
NextAddr ==
    \/ DumpLinksDone \/ LinkAdd
    \/ AddrAddTracked(SameNetCmds) \/ AddrDelTracked(SameNetCmds)
SpecAddr == Init /\ [][NextAddr]_vars

\* one SVI with its address, fdb entry and neighbor, and the removals of
\* these and of what is not there, every event recorded
NextDel ==
    \/ DumpLinksDone \/ DumpNetworksDone \/ DumpFdbDone
    \/ LinkAdd1 \/ AddrAdd1 \/ FdbAdd1
    \/ NeighAddOf({NeighCmd(1, 1, NUD_REACHABLE, FALSE)})
    \/ LinkDel \/ AddrDelOf({AddrCmd(i, NetIp, AddrBits - 1) : i \in Ifindexes})
    \/ FdbDel1 \/ NeighDel
SpecDel == InitTraced /\ [][NextDel]_vars

\* the interval computation alone, over its inputs
SpecTime == InitTime /\ [][ComputeTime]_vars

\* one interface that is added under a denied name or under another one,
\* its address and its neighbors
NextDeny ==
    \/ DumpLinksDone \/ DumpNetworksDone \/ DumpFdbDone
    \/ LinkAddOf(DeniedLinkCmds) \/ LinkAdd1 \/ LinkDel1
    \/ AddrAdd1 \/ NeighAdd \/ NeighDel
SpecDeny == Init /\ [][NextDeny]_vars

\* the main loop of a run with -c N: rounds of netlink events and replies
NextCount ==
    \/ LoopTop \/ Wake \/ CountedReply \/ EndRound
    \/ RoundEvent(DumpLinksDone) \/ RoundEvent(LinkAdd1)
    \/ RoundEvent(AddrAdd1)
SpecCount == InitCount /\ [][NextCount]_vars

\* ------------------------------------------------------------------ main
EXIT_FAILURE == 1
\* the value main returns: err is 0 after argp_parse, is set to EXIT_FAILURE
\* by a setup step that fails, and is not assigned after main_loop(), which
\* returns void
main(setup_ok) == IF ~setup_ok THEN EXIT_FAILURE ELSE 0

\* two SVIs that get addresses of one network, and their STALE neighbors
NextProbe ==
    \/ DumpLinksDone \/ DumpNetworksDone \/ DumpFdbDone
    \/ LinkAdd \/ AddrAddTracked(SameNetCmds)
    \/ NeighAddOf({NeighCmd(i, 1, NUD_STALE, FALSE) : i \in Ifindexes})
SpecProbe == Init /\ [][NextProbe]_vars

\* ------------------------------------------------ one wake-up of main_loop
\* the most netlink commands that are queued when epoll_wait returns
MaxRx == 2

\* the loop blocks in epoll_wait after the three dumps have completed on a
\* host without interfaces
InitRound ==
    /\ pc = "run"
    /\ has_links = TRUE /\ has_networks = TRUE /\ has_fdb = TRUE
    /\ InitCache /\ InitNeigh
    /\ last = [op |-> "init", res |-> "none"]
    /\ assigned = {} /\ trace = TRUE /\ timing = NoTiming
    /\ frame = [at |-> "unsent"]
    /\ loop = [at |-> "wait", ready |-> {}, rx |-> 0, expired |-> {}]

\* epoll_wait returns the descriptors that are ready: with nl_fd, the
\* commands that are queued; with timerfd_fd, the entries that have expired
EpollWait ==
    /\ pc = "run" /\ loop.at = "wait"
    /\ \E ready \in SUBSET {"signal_fd", "timerfd_fd", "nl_fd", "ringbuf_fd"},
          rx \in 0..MaxRx, expired \in SUBSET DOMAIN timers :
         /\ ready # {}
         /\ rx > 0 <=> "nl_fd" \in ready
         /\ expired # {} <=> "timerfd_fd" \in ready
         /\ loop' = [at |-> "signal", ready |-> ready, rx |-> rx,
                     expired |-> expired]
    /\ probes' = <<>>
    /\ last' = Observe("loop", "wake")
    /\ UNCHANGED <<pc, envVars, cacheVars, db_neigh_cache, timers, nl_tx,
                   trace, assigned, timing, frame>>

\* handle_signal: SIGINT or SIGTERM ends main_loop, another signal does not
SignalStage ==
    /\ pc = "run" /\ loop.at = "signal" /\ "signal_fd" \in loop.ready
    /\ \E term \in BOOLEAN :
         /\ pc' = IF term THEN "stopped" ELSE "run"
         /\ loop' = [loop EXCEPT !.at = IF term THEN "done" ELSE "timer"]
         /\ last' = Observe("signal", IF term THEN "exit" ELSE "other")
    /\ probes' = <<>>
    /\ UNCHANGED <<envVars, cacheVars, db_neigh_cache, timers, nl_tx,
                   trace, assigned, timing, frame>>

\* a loop that goes on to the ring buffer with netlink commands still queued
NextStageEarly ==
    /\ pc = "run"
    /\ \/ loop.at = "signal" /\ "signal_fd" \notin loop.ready
          /\ loop' = [loop EXCEPT !.at = "timer"]
       \/ loop.at = "timer" /\ loop.expired = {}
          /\ loop' = [loop EXCEPT !.at = "netlink"]
       \/ loop.at = "netlink"
          /\ loop' = [loop EXCEPT !.at = "ring"]
       \/ loop.at = "ring"
          /\ loop' = [loop EXCEPT !.at = "flush"]
    /\ probes' = <<>>
    /\ last' = Observe("loop", "next")
    /\ UNCHANGED <<pc, envVars, cacheVars, db_neigh_cache, timers, nl_tx,
                   trace, assigned, timing, frame>>

\* the for loop of one descriptor is over and the next one begins: the
\* timer loop when handle_timer_events has handled what expired, the netlink
\* loop when netlink_dequeue_cmd returns NULL
NextStage ==
    /\ pc = "run"
    /\ \/ loop.at = "signal" /\ "signal_fd" \notin loop.ready
          /\ loop' = [loop EXCEPT !.at = "timer"]
       \/ loop.at = "timer" /\ loop.expired = {}
          /\ loop' = [loop EXCEPT !.at = "netlink"]
       \/ loop.at = "netlink" /\ loop.rx = 0
          /\ loop' = [loop EXCEPT !.at = "ring"]
       \/ loop.at = "ring"
          /\ loop' = [loop EXCEPT !.at = "flush"]
    /\ probes' = <<>>
    /\ last' = Observe("loop", "next")
    /\ UNCHANGED <<pc, envVars, cacheVars, db_neigh_cache, timers, nl_tx,
                   trace, assigned, timing, frame>>

\* handle_timer_events hands an expired entry to handle_timer_event
TimerStage ==
    /\ pc = "run" /\ loop.at = "timer"
    /\ \E key \in loop.expired :
         /\ Returns("timer", handle_timer_neigh_event(Cache, key))
         /\ loop' = [loop EXCEPT !.expired = @ \ {key}]
    /\ UNCHANGED <<trace, assigned, timing, frame>>

\* handle_netlink dequeues one command and hands it to handle_netlink_cmd:
\* the SVI, its address, or its neighbor that comes or goes
NetlinkStage ==
    /\ pc = "run" /\ loop.at = "netlink" /\ loop.rx > 0
    /\ \E s \in FreeSlots(Cache), sysctl_ok \in BOOLEAN :
         \E c \in {handle_link_add(Cache, LinkCmd(1, IfidxMon, 0, "vlan1")),
                    handle_addr_add(Cache, AddrCmd(1, NetIp, AddrBits - 1),
                                    s, TRUE),
                    handle_neigh_add(Cache,
                        NeighCmd(1, 1, NUD_REACHABLE, FALSE), sysctl_ok),
                    handle_neigh_del(Cache, [ifindex |-> 1, ip |-> HostIp])} :
           Returns("netlink", c)
    /\ loop' = [loop EXCEPT !.rx = @ - 1]
    /\ UNCHANGED <<trace, assigned, timing, frame>>

\* ring_buffer__consume calls handle_neighbor_reply for a record
RingStage == loop.at = "ring" /\ "ringbuf_fd" \in loop.ready /\ Reply

\* netlink_queue_send_next, and back to epoll_wait
SendStage ==
    /\ pc = "run" /\ loop.at = "flush"
    /\ Returns("flush", [Cache EXCEPT
                           !.tx = IF @ = <<>> THEN @ ELSE Tail(@),
                           !.res = "sent"])
    /\ loop' = [at |-> "wait", ready |-> {}, rx |-> 0, expired |-> {}]
    /\ UNCHANGED <<trace, assigned, timing, frame>>

NextRound ==
    \/ EpollWait \/ SignalStage \/ NextStage \/ TimerStage \/ NetlinkStage
    \/ RingStage \/ SendStage
SpecRound == InitRound /\ [][NextRound]_vars

\* ------------------------------------------------ main: setup and cleanup
\* the setup_* calls and the cleanup_* calls of main in the order of the
\* program text
main_stages ==
    [setup |-> <<"filters", "packet", "cache", "signals", "netlink", "bpf",
                 "timerfd", "stats", "epoll">>,
     cleanup |-> <<"epoll", "stats", "timerfd", "bpf", "netlink", "signals",
                   "cache", "packet", "filters">>]

\* a jump to the label that has the number of the failing setup
goto_cleanup_of_failed(label) == Len(main_stages.cleanup) - label

\* the first cleanup call after the label cleanup<label>
goto_cleanup(label) == Len(main_stages.cleanup) + 1 - label

\* main after argp_parse; fail: the setup call that will fail, or 0
InitMain ==
    /\ InitRun /\ trace = TRUE /\ timing = NoTiming
    /\ frame = [at |-> "unsent"]
    /\ loop \in [at : {"setup"}, fail : 0..Len(main_stages.setup),
                  set_up : {<<>>}, next : {0}, cleaned : {<<>>},
                  ended : {"no"}]

\* the next setup_* call: it succeeds, or it fails and main jumps to the
\* label of the setups that succeeded; after setup_epoll, main_loop
SetupStage ==
    /\ pc = "run" /\ loop.at = "setup"
    /\ LET i == Len(loop.set_up) + 1
       IN IF i = loop.fail
          THEN loop' = [loop EXCEPT !.at = "cleanup",
                                    !.next = goto_cleanup(i - 1)]
          ELSE loop' = [loop EXCEPT
                          !.set_up = Append(@, main_stages.setup[i]),
                          !.at = IF i = Len(main_stages.setup)
                                 THEN "main_loop" ELSE "setup"]
    /\ probes' = <<>>
    /\ last' = Observe("main", "setup")
    /\ UNCHANGED <<pc, envVars, cacheVars, db_neigh_cache, timers, nl_tx,
                   trace, assigned, timing, frame>>

\* main_loop returns: handle_signal saw SIGINT or SIGTERM, the count of -c
\* was used up, or a handler failed
MainLoopReturns ==
    /\ pc = "run" /\ loop.at = "main_loop"
    /\ \E how \in {"signal", "count", "failure"} :
         loop' = [loop EXCEPT !.at = "cleanup", !.next = 1, !.ended = how]
    /\ probes' = <<>>
    /\ last' = Observe("main", "main_loop")
    /\ UNCHANGED <<pc, envVars, cacheVars, db_neigh_cache, timers, nl_tx,
                   trace, assigned, timing, frame>>

\* the next cleanup_* call, or the return of main after the last one
CleanupStage ==
    /\ pc = "run" /\ loop.at = "cleanup"
    /\ IF loop.next > Len(main_stages.cleanup)
       THEN pc' = "stopped" /\ loop' = [loop EXCEPT !.at = "exit"]
       ELSE /\ pc' = pc
            /\ loop' = [loop EXCEPT
                          !.cleaned = Append(@, main_stages.cleanup[loop.next]),
                          !.next = @ + 1]
    /\ probes' = <<>>
    /\ last' = Observe("main", "cleanup")
    /\ UNCHANGED <<envVars, cacheVars, db_neigh_cache, timers, nl_tx,
                   trace, assigned, timing, frame>>

SpecMain ==
    InitMain /\ [][SetupStage \/ MainLoopReturns \/ CleanupStage]_vars

\* every kind of LINK ADD, for an interface that is added, or updated, as
\* an SVI of either VLAN or as no SVI at all; one network that the links
\* are bound to, and that leaves with them
NextLinks ==
    \/ DumpLinksDone \/ LinkAddOf(LinkCmds) \/ LinkDel
    \/ AddrAddOf({AddrCmd(i, NetIp, AddrBits - 1) : i \in Ifindexes})
SpecLinks == Init /\ [][NextLinks]_vars

\* ------------------------------------------------- a VLAN device re-tagged
\* The link events of interface 2 (its vlan_id and its bridge change between
\* LINK ADD events) with the address events of two networks on it.
VlanAddrCmds ==
    {AddrCmd(2, ap[1], ap[2]) :
       ap \in {<<NetIp, AddrBits - 1>>, <<HostIp, AddrBits>>}}
NextVlan ==
    \/ DumpLinksDone
    \/ LinkAddOf({cmd \in LinkCmds : cmd.ifindex = 2})
    \/ LinkDel
    \/ AddrAddOf(VlanAddrCmds)
    \/ AddrDelOf(VlanAddrCmds)
SpecVlan == Init /\ [][NextVlan]_vars

\* ------------------------------------------------ Neighbor Solicitation
ETH_P_IPV6 == 34525
IPPROTO_ICMPV6 == 58
ND_NEIGHBOR_SOLICIT == 135

\* checksum that drops the carries instead of folding them in
checksum_unfolded(data, len, big_endian) ==
    LET word(i) == IF big_endian THEN 256 * data[2 * i - 1] + data[2 * i]
                   ELSE data[2 * i - 1] + 256 * data[2 * i]
        RECURSIVE words(_)
        words(n) == IF n = 0 THEN 0 ELSE words(n - 1) + word(n)
        sum0 == words(len \div 2) + (IF len % 2 = 1 THEN data[len] ELSE 0)
    IN 65535 - (sum0 % 65536)

\* data is read as uint16_t words of the host; sum is a uint32_t, which the
\* 36 words of a solicitation cannot overflow; the result is (uint16_t)~sum
checksum(data, len, big_endian) ==
    LET word(i) == IF big_endian THEN 256 * data[2 * i - 1] + data[2 * i]
                   ELSE data[2 * i - 1] + 256 * data[2 * i]
        RECURSIVE words(_)
        words(n) == IF n = 0 THEN 0 ELSE words(n - 1) + word(n)
        sum0 == words(len \div 2) + (IF len % 2 = 1 THEN data[len] ELSE 0)
        sum1 == (sum0 \div 65536) + (sum0 % 65536)
        sum2 == sum1 + (sum1 \div 65536)
    IN 65535 - (sum2 % 65536)

\* the buffer handed to sendto: Ethernet, IPv6, solicitation, option.
\* neigh.sending is the link network of neigh->sending_link_network, with
\* the MAC of its link.
send_neighbor_solicitation(neigh, big_endian) ==
    LET src == neigh.sending
        eth == neigh.mac \o src.mac
                 \o <<ETH_P_IPV6 \div 256, ETH_P_IPV6 % 256>>
        ns(cksum) == <<ND_NEIGHBOR_SOLICIT, 0>> \o cksum \o <<0, 0, 0, 0>>
                       \o neigh.ip
        opt == <<1, 1>> \o src.mac
        payload_len == Len(ns(<<0, 0>>)) + 8
        ip6 == <<96, 0, 0, 0>> \o <<payload_len \div 256, payload_len % 256>>
                 \o <<IPPROTO_ICMPV6, 255>> \o src.ip \o neigh.ip
        pseudo_header == src.ip \o neigh.ip \o <<0, 0, 0, payload_len>>
                           \o <<0, 0, 0>> \o <<IPPROTO_ICMPV6>>
        pseudo_buffer == pseudo_header \o ns(<<0, 0>>) \o opt
        sum == checksum(pseudo_buffer, Len(pseudo_buffer), big_endian)
        nd_ns_cksum == IF big_endian THEN <<sum \div 256, sum % 256>>
                       ELSE <<sum % 256, sum \div 256>>
    IN eth \o ip6 \o ns(nd_ns_cksum) \o opt

\* a neighbor with an IPv6 address is about to be solicited, on a host of
\* either byte order
InitNs ==
    /\ InitRun /\ trace = FALSE /\ timing = NoTiming /\ loop = NoCount
    /\ LET ByteVals == {0, 1, 255}
           In6 == {<<254, 128, 0, 0, 0, 0, 0, 0, 0, 0, 0, 0, 0, 0, x, y>> :
                     x \in ByteVals, y \in ByteVals}
           Macs == {<<2, 0, 0, 0, 0, m>> : m \in ByteVals}
       IN frame \in [at : {"build"}, big_endian : BOOLEAN, buffer : {<<>>},
                     neigh : [mac : Macs, ip : In6,
                              sending : [ip : In6, mac : Macs]]]

\* send_gratuitous_neighbor_request takes the solicitation branch; sendto
\* succeeds or fails
SendNs ==
    /\ frame.at = "build"
    /\ \E sent \in BOOLEAN :
         frame' = [frame EXCEPT
                     !.at = IF sent THEN "sent" ELSE "failed",
                     !.buffer = send_neighbor_solicitation(frame.neigh,
                                                           frame.big_endian)]
    /\ UNCHANGED <<pc, envVars, cacheVars, db_neigh_cache, timers, nl_tx,
                   probes, last, trace, assigned, timing, loop>>

SpecNs == InitNs /\ [][SendNs]_vars

\* ================================================================ claims
\* the steps of one event, as action formulas
LinkDelStep(i) ==
    pc = "run" /\ \E c \in {handle_link_del(Cache, [ifindex |-> i])} :
                    Outcome("link_del", c)
AddrDelStep(cmd) ==
    pc = "run" /\ \E c \in {handle_addr_del(Cache, cmd)} :
                    Outcome("addr_del", c)

FdbAddStep(cmd) ==
    pc = "run" /\ \E c \in {handle_fdb_add(Cache, cmd)} :
                    Outcome("fdb_add", c)
ReplyStep(reply) ==
    /\ pc = "run" /\ Len(nl_tx) < MaxTx
    /\ \E sysctl_ok \in BOOLEAN :
         \E c \in {handle_neighbor_reply(Cache, reply, sysctl_ok)} :
           (sysctl_ok \/ c.asked) /\ Outcome("reply", [c EXCEPT !.ret = 0])

\* the reply's MAC is in the fdb table on the link bound to its
\* (network_id, vlan_id)
FdbKnown(reply) ==
    LET s == cache_get_link_network_by_reply(Cache, reply)
    IN s # 0 /\ <<reply.mac, ln[s].link, reply.vlan_id>> \in DOMAIN db_fdb_cache

\* C1: a reply whose MAC is in the fdb table on the link of its
\* (network_id, vlan_id) enqueues no NEIGH_ADD and neither cancels nor arms a
\* timer.
\* (a reply step leaves last.op = "reply": that test comes first, so that the
\* handler is evaluated on those steps only)
C1_FdbHitSuppresses ==
    [][\A reply \in Replies :
         (last'.op = "reply" /\ FdbKnown(reply) /\ ReplyStep(reply)) =>
           /\ nl_tx' = nl_tx
           /\ timers' = timers
           /\ db_neigh_cache' = db_neigh_cache]_vars

\* a reply was dropped on an fdb hit while its neighbor had a pending timer
C1_Witness ==
    /\ last = [op |-> "reply", res |-> "fdb_hit"]
    /\ timers # EmptyMap
    /\ nl_tx = <<>>

\* C2: every fdb entry is inserted by an externally-learned FDB ADD; an FDB
\* ADD that is not externally learned leaves the table as it is; an
\* externally-learned FDB ADD for a cached link, once has_links and
\* has_networks are set, inserts its entry.
C2_FdbOnlyExternal ==
    [][/\ \A k \in DOMAIN db_fdb_cache' \ DOMAIN db_fdb_cache :
            \E cmd \in FdbCmds :
              /\ cmd.is_externally_learned
              /\ k = <<cmd.mac, cmd.ifindex, cmd.vlan_id>>
              /\ FdbAddStep(cmd)
       /\ \A cmd \in FdbCmds :
            FdbAddStep(cmd) =>
              IF cmd.is_externally_learned
              THEN (has_links /\ has_networks
                      /\ cmd.ifindex \in db_link_cache)
                     => <<cmd.mac, cmd.ifindex, cmd.vlan_id>>
                          \in DOMAIN db_fdb_cache'
              ELSE db_fdb_cache' = db_fdb_cache]_vars

\* C3: until has_links, has_networks and has_fdb are all set the neigh table
\* is empty, no timer is armed and no probe is emitted, whatever NEIGH ADD
\* arrives.
C3_NoNeighBeforeReady ==
    ~(has_links /\ has_networks /\ has_fdb) =>
       /\ db_neigh_cache = EmptyMap
       /\ timers = EmptyMap
       /\ probes = <<>>

\* a NEIGH ADD was handled with a link and a network cached, has_fdb unset
C3_Witness ==
    /\ last.op = "neigh_add"
    /\ has_links /\ has_networks /\ ~has_fdb
    /\ \E i \in db_link_cache : link_mem[i].network_list # <<>>

\* C4: after LINK DEL of a cached link i the link table, both LinkNetwork
\* indices, every network's links, the fdb table and the neigh table hold
\* nothing of i.
C4_LinkDelPurges ==
    [][\A i \in Ifindexes :
         (i \in db_link_cache /\ LinkDelStep(i)) =>
           /\ i \notin db_link_cache'
           /\ \A s \in Range(db_lookup_vlan_networkid')
                        \cup Range(db_lookup_addr_ifindex') : ln'[s].link # i
           /\ \A n \in db_network_cache' :
                \A s \in SeqSet(net'[n].links) : ln'[s].link # i
           /\ \A k \in DOMAIN db_fdb_cache' : db_fdb_cache'[k].link # i
           /\ \A k \in DOMAIN db_neigh_cache' : k[1] # i]_vars

\* C5: the sending_link_network of every neighbor of the neigh table is a
\* binding that is still in both LinkNetwork indices and not destroyed.
C5_SendingBindingLive ==
    \A k \in DOMAIN db_neigh_cache :
      LET s == db_neigh_cache[k].sending_link_network
      IN /\ ln[s].live
         /\ s \in Range(db_lookup_vlan_networkid)
         /\ s \in Range(db_lookup_addr_ifindex)
         /\ ln[s].link \in db_link_cache
         /\ ln[s].network \in db_network_cache

\* the bindings listed by a link or a network of the tables
ListedSlots ==
    UNION {SeqSet(link_mem[i].network_list) : i \in db_link_cache}
      \cup UNION {SeqSet(net[n].links) : n \in db_network_cache}

\* C6: every binding listed by a link or a network is what both indices
\* return for its own keys, also when two SVIs of one vlan_id share the
\* network; and a binding is in one index iff it is in the other.
C6_IndicesCoherent ==
    /\ \A s \in ListedSlots :
         LET vk == <<ln[s].network, link_mem[ln[s].link].vlan_id>>
             ak == <<net[ln[s].network].network, ln[s].link>>
         IN /\ vk \in DOMAIN db_lookup_vlan_networkid
            /\ db_lookup_vlan_networkid[vk] = s
            /\ ak \in DOMAIN db_lookup_addr_ifindex
            /\ db_lookup_addr_ifindex[ak] = s
    /\ Range(db_lookup_vlan_networkid) = Range(db_lookup_addr_ifindex)

\* C7: the refcnt of every network of the table is the length of its links.
C7_RefcntIsLinks ==
    \A n \in db_network_cache : net[n].refcnt = Len(net[n].links)

\* C8: a binding is in its link's network_list iff it is in its network's
\* links, and no list holds a destroyed binding.
C8_ListsAgree ==
    /\ \A s \in DOMAIN ln :
         (/\ ln[s].link \in db_link_cache
          /\ s \in SeqSet(link_mem[ln[s].link].network_list))
           <=> s \in SeqSet(net[ln[s].network].links)
    /\ \A s \in ListedSlots : ln[s].live

\* C9: the target-networks map has exactly the entries
\* (prefixlen, network) -> id of the networks of the table.
C9_MapMirrorsNetworks ==
    /\ \A n \in db_network_cache :
         /\ <<net[n].prefixlen, net[n].network>> \in DOMAIN target_networks
         /\ target_networks[<<net[n].prefixlen, net[n].network>>] = n
    /\ \A k \in DOMAIN target_networks :
         /\ target_networks[k] \in db_network_cache
         /\ k = <<net[target_networks[k]].prefixlen,
                  net[target_networks[k]].network>>

\* the network that ADDR ADD cmd created on its link: the binding made with
\* it keeps the address of the event
CreatedBy(cmd) ==
    {n \in db_network_cache :
       /\ net[n].network = cmd.network /\ net[n].prefixlen = cmd.prefixlen
       /\ \E s \in SeqSet(net[n].links) :
            ln[s].live /\ ln[s].link = cmd.ifindex /\ ln[s].ip = cmd.ip}

\* C10: ADDR DEL with the address/prefix and link that created network N,
\* also when the address is a host address, removes N's map entry, N from
\* the network table and the by-address index and N's bindings from both
\* indices, and leaves the neigh table as it is.
C10_AddrDelRemoves ==
    [][\A cmd \in AddrCmds : \A n \in CreatedBy(cmd) :
         (AddrDelStep(cmd) /\ pc' = "run") =>
           /\ <<cmd.prefixlen, cmd.network>> \notin DOMAIN target_networks'
           /\ n \notin db_network_cache'
           /\ cmd.network \notin DOMAIN db_lookup_addr'
           /\ \A s \in SeqSet(net[n].links) :
                /\ s \notin Range(db_lookup_vlan_networkid')
                /\ s \notin Range(db_lookup_addr_ifindex')
           /\ db_neigh_cache' = db_neigh_cache]_vars

\* the network an assigned address belongs to
NetworkOf(a) == calculate_network_using_cidr(a[2], a[3])

\* C11: a network lives exactly as long as an SVI has an address in it:
\* while the address a is assigned, its network is in the network table and
\* the network-by-addr index, has its entry in the target-networks map and a
\* binding of a's SVI; a network, a binding or a map entry that no assigned
\* address accounts for is gone.
C11_NetworkLifecycle ==
    pc = "run" =>
      /\ \A a \in assigned :
            /\ NetworkOf(a) \in DOMAIN db_lookup_addr
            /\ db_lookup_addr[NetworkOf(a)] \in db_network_cache
            /\ <<a[3], NetworkOf(a)>> \in DOMAIN target_networks
            /\ <<NetworkOf(a), a[1]>> \in DOMAIN db_lookup_addr_ifindex
      /\ \A id \in db_network_cache :
            \E a \in assigned : NetworkOf(a) = net[id].network
      /\ \A k \in DOMAIN db_lookup_addr_ifindex :
            \E a \in assigned : NetworkOf(a) = k[1] /\ a[1] = k[2]
      /\ \A k \in DOMAIN target_networks :
            \E a \in assigned : a[3] = k[1] /\ NetworkOf(a) = k[2]

\* C12: in every state, for every add event, handling the event and then
\* the same event again leaves the link, network, fdb and neigh tables, the
\* network-by-addr index, both binding indices and the lists of the links
\* and networks as the first handling left them.
C12_ReplayIsNoOp ==
    LET Again(c) == [Forget(c) EXCEPT !.probes = <<>>, !.ub = FALSE,
                                      !.ret = 0, !.res = "ignored",
                                      !.asked = FALSE]
        Tables(c) ==
          <<c.lk, [i \in c.lk |-> c.lm[i]],
            c.nets, [id \in c.nets |-> c.net[id]],
            c.addr, c.vnid, c.ifad,
            [s \in {t \in DOMAIN c.ln : c.ln[t].live} |-> c.ln[s]],
            c.fdb,
            [k \in DOMAIN c.neigh |->
               <<c.neigh[k].mac, c.neigh[k].nud_state,
                 c.neigh[k].sending_link_network>>]>>
        Same(c1, c2) == Tables(Forget(c1)) = Tables(Forget(c2))
    IN pc = "run" =>
         /\ \A cmd \in LinkCmds :
               LET c1 == handle_link_add(Cache, cmd)
               IN Same(handle_link_add(Again(c1), cmd), c1)
         /\ \A cmd \in AddrCmds, s \in LnSlots, t \in LnSlots :
               LET c1 == handle_addr_add(Cache, cmd, s, TRUE)
               IN (s \in FreeSlots(Cache) /\ next_id <= MaxNet
                     /\ t \in FreeSlots(Again(c1)))
                    => Same(handle_addr_add(Again(c1), cmd, t, TRUE), c1)
         /\ \A cmd \in FdbCmds :
               LET c1 == handle_fdb_add(Cache, cmd)
               IN Same(handle_fdb_add(Again(c1), cmd), c1)
         /\ \A cmd \in NeighCmds, ok1 \in BOOLEAN, ok2 \in BOOLEAN :
               LET c1 == handle_neigh_add(Cache, cmd, ok1)
               IN Same(handle_neigh_add(Again(c1), cmd, ok2), c1)

\* C13: in every state, a LINK DEL, ADDR DEL, FDB DEL or NEIGH DEL whose key
\* is not in the cache returns 0 and leaves the whole cache, the
\* target-networks map, the timers and the TX queue as they are.
C13_UnknownDelIsNoOp ==
    LET Untouched(c) == c.ret = 0 /\ c = [Cache EXCEPT !.res = "unknown"]
    IN pc = "run" =>
         /\ \A i \in Ifindexes :
               ~cache_get_link(Cache, i)
                 => Untouched(handle_link_del(Cache, [ifindex |-> i]))
         /\ \A cmd \in AddrCmds :
               cache_get_network(Cache, cmd) = 0
                 => Untouched(handle_addr_del(Cache, cmd))
         /\ \A cmd \in FdbCmds :
               ~cache_get_fdb(Cache, cmd)
                 => Untouched(handle_fdb_del(Cache, cmd))
         /\ \A cmd \in NeighDelCmds :
               ~cache_get_neigh(Cache, cmd)
                 => Untouched(handle_neigh_del(Cache, cmd))

\* a LINK DEL of an interface that is not cached was handled while the other
\* interface has its network, fdb entry, neighbor and timer
C13_Witness ==
    /\ last = [op |-> "link_del", res |-> "unknown"]
    /\ pc = "run"
    /\ db_link_cache # {} /\ db_network_cache # {}
    /\ db_fdb_cache # EmptyMap /\ db_neigh_cache # EmptyMap
    /\ timers # EmptyMap

\* C14: a reply that handle_neighbor_reply has handled leaves the set of
\* keys of the neigh table as it was, and a key that is new in the neigh
\* table was put there by a NEIGH ADD event.
C14_ReplyKeepsNeighKeys ==
    [][/\ (last'.op = "reply" /\ pc' = "run")
           => DOMAIN db_neigh_cache' = DOMAIN db_neigh_cache
       /\ (DOMAIN db_neigh_cache' \ DOMAIN db_neigh_cache # {})
           => last'.op = "neigh_add"]_vars

\* a reply for an address that is not in the neigh table was forwarded to
\* the kernel, and the neigh table is still empty
C14_Witness ==
    /\ last = [op |-> "reply", res |-> "sent"]
    /\ nl_tx # <<>>
    /\ db_neigh_cache = EmptyMap

\* C15: in every state, handling a reply that resolves a binding by
\* (network_id, vlan_id) and has no matching fdb entry appends exactly one
\* NEIGH_ADD (the binding's link, reply.mac, reply.ip) to the TX queue,
\* whether or not the neighbor is cached and whether or not
\* base_reachable_time_ms can be read.
C15_ReplyEnqueuesOne ==
    pc = "run" =>
      \A reply \in Replies, sysctl_ok \in BOOLEAN :
        LET s == cache_get_link_network_by_reply(Cache, reply)
        IN (s # 0 /\ ~FdbKnown(reply)) =>
             handle_neighbor_reply(Cache, reply, sysctl_ok).tx
               = Append(nl_tx, [ifindex |-> ln[s].link, mac |-> reply.mac,
                                ip |-> reply.ip])

\* C16: in every state, after a reply that is not suppressed (it resolves a
\* binding and has no matching fdb entry) for a neighbor of the neigh table
\* has been handled, exactly one timer entry is pending for that neighbor,
\* whatever its NUD state.
C16_ReplyResetsTimer ==
    pc = "run" =>
      \A reply \in Replies, sysctl_ok \in BOOLEAN :
        LET s == cache_get_link_network_by_reply(Cache, reply)
            key == <<ln[s].link, reply.ip>>
            c == handle_neighbor_reply(Cache, reply, sysctl_ok)
        IN (s # 0 /\ ~FdbKnown(reply) /\ key \in DOMAIN db_neigh_cache) =>
             key \in DOMAIN c.timers /\ c.timers[key] = 1

\* C17: an accepted NEIGH ADD that leaves the neighbor REACHABLE, and can
\* read base_reachable_time_ms, arms a timer for a neighbor that has none
\* pending (afterwards one entry is pending and the timer slot is non-null)
\* and leaves the pending timer of a neighbor that has one as it is; the
\* timer slot of a neighbor goes from null to non-null in a NEIGH ADD or a
\* reply only, and from non-null to null (or away with the neighbor) in a
\* timer firing, a reply or a NEIGH DEL only.
C17_TimerSlotTransitions ==
    [][/\ pc = "run" =>
            \A cmd \in NeighCmds :
              LET c == handle_neigh_add(Cache, cmd, TRUE)
                  key == <<cmd.ifindex, cmd.ip>>
              IN (c.res \in {"added", "updated"}
                    /\ cmd.nud_state = NUD_REACHABLE) =>
                   IF key \in DOMAIN timers THEN c.timers = timers
                   ELSE /\ key \in DOMAIN c.timers /\ c.timers[key] = 1
                        /\ c.neigh[key].timer
       /\ \A key \in DOMAIN db_neigh_cache :
             /\ (key \in DOMAIN db_neigh_cache'
                   /\ ~db_neigh_cache[key].timer
                   /\ db_neigh_cache'[key].timer)
                  => last'.op \in {"neigh_add", "reply"}
             /\ (key \in DOMAIN db_neigh_cache'
                   /\ db_neigh_cache[key].timer
                   /\ ~db_neigh_cache'[key].timer)
                  => (TimerFire \/ Reply)
             /\ (key \notin DOMAIN db_neigh_cache' /\ pc' = "run")
                  => NeighDel]_vars

\* C18: every interval computed for base_reachable_time_ms = B lies, in
\* milliseconds, in [B/4, B/4 + 2000], whatever rand() returns
\* (in quarters of a millisecond: in [B, B + 8000]).
C18_IntervalBounds ==
    timing.at = "computed" =>
      /\ timing.base <= timing.quarter_ms
      /\ timing.quarter_ms <= timing.base + 8000

\* an interval was computed from a non-zero base time with a rand() above
\* 2000 that leaves a jitter
C18_Witness ==
    /\ timing.at = "computed"
    /\ timing.base > 0 /\ timing.rand > 2000
    /\ timing.quarter_ms > timing.base

\* C19: in every state the timer queue holds at most one pending entry for
\* each neighbor.
C19_OneTimerPerNeigh ==
    \A key \in DOMAIN timers : timers[key] <= 1

\* a reply has re-armed the timer of a cached neighbor
C19_Witness ==
    /\ last = [op |-> "reply", res |-> "refreshed"]
    /\ \E key \in DOMAIN db_neigh_cache :
         key \in DOMAIN timers /\ db_neigh_cache[key].timer

\* C20: a LINK ADD that inserts a link whose ifname matches the deny filter
\* sets its ignore_link, and no neighbor is inserted into the neigh table
\* for a link whose ignore_link is set.
C20_DeniedLinksHaveNoNeighbors ==
    [][/\ \A cmd \in LinkCmds \cup DeniedLinkCmds :
            (pc = "run" /\ ~cache_get_link(Cache, cmd.ifindex)
               /\ filter_deny_interfaces(cmd.ifname))
              => handle_link_add(Cache, cmd).lm[cmd.ifindex].ignore_link
       /\ \A key \in DOMAIN db_neigh_cache' \ DOMAIN db_neigh_cache :
            ~(key[1] \in db_link_cache /\ link_mem[key[1]].ignore_link)]_vars

\* C21: under -c N no reply is correlated once N replies have been counted
\* (a reply that enqueues a NEIGH_ADD or changes the timers finds
\* env.count >= 1), and the loop does not block in epoll_wait, waiting for
\* one more event, with the count used up.
C21_CountStopsLoop ==
    [][/\ (last'.op = "reply" /\ (nl_tx' # nl_tx \/ timers' # timers))
            => loop.count >= 1
       /\ ~(pc' = "run" /\ loop'.at = "wait" /\ loop'.count <= 0)]_vars

\* C22: the exit code is 0 when the run ends with the -c count completed,
\* and non-zero when a setup step fails or when the main loop stops on a
\* runtime failure (here: a netlink command handler returned an error).
C22_ExitCodeTellsFailure ==
    /\ main(FALSE) # 0
    /\ (pc = "stopped" /\ loop.at = "done") => main(TRUE) = 0
    /\ (pc = "stopped" /\ loop.at # "done") => main(TRUE) # 0

\* C23: in every state, every entry of the fdb table has the ifindex of a
\* link that is in the link table, and its link back-reference is that link.
C23_FdbLinksPresent ==
    \A k \in DOMAIN db_fdb_cache :
      k[2] \in db_link_cache /\ db_fdb_cache[k].link = k[2]

\* C24: in every state, an ADDR ADD that creates a new network and whose
\* target-networks update fails returns an error and leaves the network
\* table, the network-by-addr index, both binding indices, the link's
\* network_list and the target-networks map as they were.
C24_MapFailureRollsBack ==
    pc = "run" =>
      \A cmd \in AddrCmds, s \in LnSlots :
        LET c == handle_addr_add(Cache, cmd, s, FALSE)
        IN (AddrAddCreatesNetwork(Cache, cmd) /\ s \in FreeSlots(Cache)) =>
             /\ c.ret # 0
             /\ c.nets = db_network_cache
             /\ c.addr = db_lookup_addr
             /\ c.vnid = db_lookup_vlan_networkid
             /\ c.ifad = db_lookup_addr_ifindex
             /\ c.lm[cmd.ifindex].network_list
                  = link_mem[cmd.ifindex].network_list
             /\ c.tn = target_networks

\* C25: every ARP request emitted for a neighbor goes to the neighbor's
\* cached MAC, asks for the neighbor's address, and has as sender protocol
\* address an address that the sending SVI owns on the neighbor's network,
\* also when the SVI was bound to a network that existed already.
C25_ArpSenderIsLocalAddress ==
    \A n \in 1..Len(probes) :
      LET p == probes[n]
          key == <<p.ifindex, p.dst_ip>>
      IN /\ key \in DOMAIN db_neigh_cache
         /\ p.dst_mac = db_neigh_cache[key].mac
         /\ \E a \in assigned :
              /\ a[1] = p.ifindex /\ a[2] = p.src_ip
              /\ NetworkOf(a) = calculate_network_using_cidr(p.dst_ip, a[3])

\* C26: every Neighbor Solicitation that is sent has hop limit 255, ICMPv6
\* type 135, a Source Link-Layer Address option with the MAC of the sending
\* SVI, and a checksum with which the 16-bit one's-complement sum over the
\* pseudo-header {saddr, daddr, 4-byte length, 3 zero bytes, next header 58}
\* and the ICMPv6 message, as the receiver takes them from the frame, is
\* all ones.
C26_SolicitationIsValid ==
    frame.at = "sent" =>
      LET b == frame.buffer
          icmp == SubSeq(b, 55, Len(b))
          data == SubSeq(b, 23, 54) \o <<0, 0, 0, Len(icmp)>> \o <<0, 0, 0, 58>>
                    \o icmp
          RECURSIVE ones(_)
          ones(n) == IF n = 0 THEN 0
                     ELSE LET s == ones(n - 1) + 256 * data[2 * n - 1]
                                     + data[2 * n]
                          IN IF s > 65535 THEN s - 65535 ELSE s
      IN /\ Len(b) = 86
         /\ b[22] = 255
         /\ b[21] = 58
         /\ b[55] = 135
         /\ SubSeq(b, 79, 86) = <<1, 1>> \o frame.neigh.sending.mac
         /\ ones(Len(data) \div 2) = 65535

C26_Witness ==
    /\ frame.at = "sent"
    /\ ~frame.big_endian
    /\ frame.neigh.ip[16] = 255 /\ frame.neigh.sending.ip[15] = 255
    /\ frame.buffer[57] # frame.buffer[58]

C29_NoTimerWithoutNeigh ==
    /\ pc = "run" =>
         \A cmd \in NeighDelCmds :
           LET key == <<cmd.ifindex, cmd.ip>>
               c == handle_neigh_del(Cache, cmd)
           IN key \in DOMAIN db_neigh_cache =>
                key \notin DOMAIN c.neigh /\ key \notin DOMAIN c.timers
    /\ \A key \in DOMAIN timers : key \in DOMAIN db_neigh_cache
    /\ \A n \in 1..Len(probes) :
         \E key \in DOMAIN db_neigh_cache :
           key[2] = probes[n].dst_ip /\ db_neigh_cache[key].mac = probes[n].dst_mac

\* a NEIGH DEL has cancelled the timer of a neighbor and removed it
C29_Witness ==
    /\ last = [op |-> "neigh_del", res |-> "cancelled"]
    /\ pc = "run"
    /\ db_neigh_cache = EmptyMap /\ timers = EmptyMap

\* C30: in every state, a NEIGH ADD or a reply that fails to read
\* base_reachable_time_ms while it arms the timer of a neighbor leaves that
\* neighbor with no pending entry and an empty timer slot; and the timer
\* slot of every neighbor is non-empty exactly when an entry is pending for
\* it.
C30_FailedArmLeavesIdle ==
    pc = "run" =>
      /\ \A key \in DOMAIN db_neigh_cache :
           db_neigh_cache[key].timer <=> key \in DOMAIN timers
      /\ \A cmd \in NeighCmds :
           LET c == handle_neigh_add(Cache, cmd, FALSE)
               key == <<cmd.ifindex, cmd.ip>>
           IN c.asked => key \notin DOMAIN c.timers /\ ~c.neigh[key].timer
      /\ \A reply \in Replies :
           LET c == handle_neighbor_reply(Cache, reply, FALSE)
           IN c.asked =>
                \A key \in DOMAIN c.neigh :
                  key[2] = reply.ip =>
                    key \notin DOMAIN c.timers /\ ~c.neigh[key].timer

\* C31: in every state, a NEIGH ADD changes the neigh table, the timers or
\* emits a probe only if the three readiness flags are set, ifindex # 0, the
\* MAC is not zero, the event is not externally learned, the link is cached
\* and the address lies in a network of a binding that is still live on the
\* link; and every cached neighbor has a non-zero MAC.
C31_NeighAddGuards ==
    pc = "run" =>
      /\ \A key \in DOMAIN db_neigh_cache : ~is_zero_mac(db_neigh_cache[key].mac)
      /\ \A cmd \in NeighCmds, sysctl_ok \in BOOLEAN :
           LET c == handle_neigh_add(Cache, cmd, sysctl_ok)
           IN (c.neigh # db_neigh_cache \/ c.timers # timers
                 \/ c.probes # <<>>) =>
                /\ has_links /\ has_networks /\ has_fdb
                /\ cmd.ifindex # 0
                /\ ~is_zero_mac(cmd.mac)
                /\ ~cmd.is_externally_learned
                /\ cmd.ifindex \in db_link_cache
                /\ \E s \in DOMAIN ln :
                     /\ ln[s].live /\ ln[s].link = cmd.ifindex
                     /\ calculate_network_using_cidr(
                            cmd.ip, net[ln[s].network].prefixlen)
                          = net[ln[s].network].network

\* C32: in every state, an ADDR ADD for a link-local address (with the
\* link-local filter on), for an ifindex without a cached link, or for a
\* link whose is_svi is not set leaves the cache as it is; and every live
\* link_network is bound to a cached link whose is_svi is set.
C32_AddrAddDrops ==
    pc = "run" =>
      /\ \A cmd \in AddrCmds \cup {AddrCmd(i, 1, AddrBits) : i \in Ifindexes},
            s \in LnSlots, bpf_ok \in BOOLEAN :
           (\/ ~disable_ipv6ll_filter /\ IN6_IS_ADDR_LINKLOCAL(cmd.ip)
            \/ cmd.ifindex \notin db_link_cache
            \/ ~link_mem[cmd.ifindex].is_svi)
             => handle_addr_add(Cache, cmd, s, bpf_ok) = Cache
      /\ \A s \in DOMAIN ln :
           ln[s].live =>
             ln[s].link \in db_link_cache /\ link_mem[ln[s].link].is_svi

\* an SVI with a binding next to a cached link that is not an SVI, for which
\* ADDR ADD events are dropped
C32_Witness ==
    /\ pc = "run" /\ has_links
    /\ db_link_cache = {1, 2}
    /\ link_mem[1].is_svi /\ ~link_mem[2].is_svi
    /\ \E s \in DOMAIN ln : ln[s].live /\ ln[s].link = 1
    /\ \A s \in DOMAIN ln : ln[s].live => ln[s].link # 2

\* C33: in every state in which has_links and has_networks are not both
\* set an FDB ADD leaves the fdb table as it is, and in every state in which
\* has_links is not set an ADDR ADD leaves the network table, the index by
\* address, the two link_network indices and the target-networks map as they
\* are.
C33_EventsBeforeDumps ==
    pc = "run" =>
      /\ ~(has_links /\ has_networks) =>
           \A cmd \in FdbCmds : handle_fdb_add(Cache, cmd).fdb = db_fdb_cache
      /\ ~has_links =>
           \A cmd \in AddrCmds, s \in LnSlots, bpf_ok \in BOOLEAN :
             LET c == handle_addr_add(Cache, cmd, s, bpf_ok)
             IN /\ c.nets = db_network_cache
                /\ c.addr = db_lookup_addr
                /\ c.vnid = db_lookup_vlan_networkid
                /\ c.ifad = db_lookup_addr_ifindex
                /\ c.tn = target_networks

\* the SVI is cached and the link dump is complete, the network dump is not:
\* an FDB ADD for the SVI is ignored
C33_Witness ==
    /\ pc = "run"
    /\ has_links /\ ~has_networks
    /\ 1 \in db_link_cache /\ link_mem[1].is_svi
    /\ db_fdb_cache = EmptyMap

\* C34: within one wake-up a reply is correlated only when no entry that
\* had expired and no netlink command that was queued at the wake-up is left
\* to handle, a netlink command is handled only when no expired entry is
\* left, a signal is handled before any of them, and the TX queue is
\* flushed after them.
C34_StagesInOrder ==
    [][/\ last'.op = "signal" => loop.at = "signal"
       /\ last'.op = "timer" => loop.at = "timer"
       /\ last'.op = "netlink" => loop.at = "netlink" /\ loop.expired = {}
       /\ last'.op = "reply" =>
            loop.at = "ring" /\ loop.expired = {} /\ loop.rx = 0
       /\ last'.op = "flush" =>
            loop.at = "flush" /\ loop.expired = {} /\ loop.rx = 0]_vars

\* the timer, the netlink socket and the ring buffer were ready together,
\* and a reply for a cached neighbor has been correlated
C34_Witness ==
    /\ last = [op |-> "reply", res |-> "refreshed"]
    /\ loop.at = "ring"
    /\ {"nl_fd", "ringbuf_fd", "timerfd_fd"} \subseteq loop.ready

\* C35: when main returns, the cleanup functions that ran are those of the
\* setups that had succeeded, each once, in the reverse of the setup order;
\* after main_loop has ended on SIGINT or SIGTERM these are all nine, in the
\* order epoll, stats, timerfd, bpf, netlink, signals, cache, packet,
\* filters; and a setup that fails is the first one not to be set up.
C35_CleanupReversesSetup ==
    LET n == Len(loop.set_up) IN
    loop.at = "exit" =>
      /\ Len(loop.cleaned) = n
      /\ \A i \in 1..n : loop.cleaned[i] = loop.set_up[n + 1 - i]
      /\ \A i \in 1..n : loop.set_up[i] = main_stages.setup[i]
      /\ loop.fail # 0 => n = loop.fail - 1
      /\ loop.ended = "signal" =>
           loop.cleaned = <<"epoll", "stats", "timerfd", "bpf", "netlink",
                            "signals", "cache", "packet", "filters">>

\* setup_netlink failed and main has returned after four cleanups
C35_Witness ==
    /\ loop.at = "exit" /\ loop.fail = 5
    /\ loop.cleaned = <<"signals", "cache", "packet", "filters">>

\* C36: in every state, a LINK ADD for a cached ifindex leaves the link with
\* the link_ifindex, ifname and vlan_id of the event, and a LINK ADD for an
\* ifindex that is not cached, followed by the same LINK ADD again, leaves
\* times.updated as the insertion set it: the second event reports no
\* attribute as changed.
C36_UpdatedOnlyOnChange ==
    pc = "run" =>
      \A cmd \in LinkCmds :
        /\ cache_get_link(Cache, cmd.ifindex) =>
              LET l == handle_link_add(Cache, cmd).lm[cmd.ifindex]
              IN /\ l.link_ifindex = cmd.link_ifindex
                 /\ l.ifname = cmd.ifname
                 /\ l.vlan_id = cmd.vlan_id
        /\ ~cache_get_link(Cache, cmd.ifindex) =>
              LET c1 == handle_link_add(Cache, cmd)
              IN /\ c1.res = "added"
                 /\ handle_link_add(c1, cmd).res = "unchanged"

\* C37: in every state, the ids of the networks in the table are at least 1
\* and below the next id to assign, and a reply whose (network_id, vlan_id)
\* resolves to a link_network in use resolves to one of the network with
\* that id.
C37_ReplyResolvesOwnNetwork ==
    pc = "run" =>
      /\ next_id >= 1
      /\ \A id \in db_network_cache : 1 <= id /\ id < next_id
      /\ \A reply \in Replies :
            LET s == cache_get_link_network_by_reply(Cache, reply)
            IN (s # 0 /\ ln[s].live) => ln[s].network = reply.network_id

\* C38: in every state, every entry of db_lookup_vlan_networkid refers to a
\* link_network in use whose network has the id of the key and whose link is
\* cached and has the vlan_id of the key.
C38_VlanIndexIsCurrent ==
    pc = "run" =>
      \A k \in DOMAIN db_lookup_vlan_networkid :
        LET b == ln[db_lookup_vlan_networkid[k]]
        IN /\ b.live
           /\ b.network = k[1]
           /\ b.link \in db_link_cache
           /\ link_mem[b.link].vlan_id = k[2]

\* C39: in every state, every network of the network table has a
\* link_network in its list (refcnt at least 1), and every entry of the
\* target_networks map holds the id of such a network.
C39_NetworkHasBinding ==
    pc = "run" =>
      /\ \A id \in db_network_cache :
            net[id].refcnt >= 1 /\ net[id].links # <<>>
      /\ \A k \in DOMAIN target_networks :
            /\ target_networks[k] \in db_network_cache
            /\ net[target_networks[k]].refcnt >= 1

\* C40: in every state, a LINK ADD, whether it inserts the link or updates
\* it, leaves the link with the link_ifindex of the event and with is_svi
\* set exactly when that link_ifindex is the monitored bridge.
C40_SviFollowsLinkIfindex ==
    pc = "run" =>
      \A cmd \in LinkCmds :
        LET l == handle_link_add(Cache, cmd).lm[cmd.ifindex]
        IN /\ l.link_ifindex = cmd.link_ifindex
           /\ l.is_svi = (cmd.link_ifindex = IfidxMon)

====
